---- MODULE Spec2Model ----
(***************************************************************************)
(* Model of the GraphVisualization component (src/unnamed/part_000):       *)
(* the classification pass of fetchAndRenderGraph, the link resolution of  *)
(* d3.forceLink, the drawn and collision radii, and the component's        *)
(* lifecycle (effect runs, pending fetches, simulations, hover overlays).  *)
(***************************************************************************)
EXTENDS Integers, Sequences, FiniteSets, TLC

VARIABLES
  \* --- the mounted component and its rendering surface
  recommendedIds,  \* the recommendedIds prop of the current render
  runs,            \* number of effect runs so far
  loading,         \* the `loading` state of useState
  pending,         \* fetches in flight: [run, recommendedIds captured by the closure]
  data,            \* the payload object handled last, as fetchAndRenderGraph left it
  surface,         \* children of the svg: legend, bound circles and lines
  transformK,      \* scale of the drawing group's transform, in hundredths
  sims,            \* running d3 simulations: [run, ticks, listener]
  tooltips,        \* number of div.tooltip elements in the page body
  hover,           \* index of the circle under the pointer, 0 for none
  drew,            \* effect runs whose handler drew its snapshot (history)
  \* --- the classification pass applied to one data object
  cInput, cRec, cData, cPasses, cResolved, cRoles1,
  \* --- one node's drawn radius and the simulator's collision radius
  rNode, rDrawn, rCollide

compVars == <<recommendedIds, runs, loading, pending, data, surface, transformK,
              sims, tooltips, hover, drew>>
classVars == <<cInput, cRec, cData, cPasses, cResolved, cRoles1>>
radVars == <<rNode, rDrawn, rCollide>>
vars == <<compVars, classVars, radVars>>

\* ------------------------------------------------------------------ bounds
MaxNodes == 2        \* nodes of a fetched graph carry the ids 1..MaxNodes
MaxLinks == 1        \* length of data.links
MaxRec == 1          \* length of the recommendedIds prop
MaxRuns == 2         \* effect runs of one mounted component
MaxTicks == 2        \* ticks a simulation emits before its alpha has decayed
MaxTooltips == 2     \* tooltip elements the model lets the page body hold
MaxPasses == 2       \* applications of the classification pass to one data object

\* ------------------------------------------------------------ value domains
Undefined == 0       \* what `x.id` evaluates to when x is a primitive id

NodeIds == 1..MaxNodes
LinkIds == 1..(MaxNodes + 1)     \* MaxNodes + 1 is an id no node carries

Roles == {"recommended", "pagerank", "connected", "other"}

\* A link endpoint: a primitive id as fetched, or (after d3.forceLink has
\* resolved it) a reference to the node object carrying that id.
Prim(i) == [obj |-> FALSE, v |-> i]
Ref(i) == [obj |-> TRUE, v |-> i]

\* link.source.id / link.target.id
IdOf(e) == IF e.obj THEN e.v ELSE Undefined

SeqsUpTo(S, n) == UNION {[1..k -> S] : k \in 0..n}

Range(s) == {s[i] : i \in DOMAIN s}

\* data.nodes of a well-formed payload: node i carries id i, an optional
\* incoming `type` and an optional `recommendation_type`.
NodeArrays ==
  UNION {[1..k -> [id : NodeIds, type : {"unset", "pagerank"},
                   recommendation_type : {"none", "pagerank"}]] : k \in 0..MaxNodes}

WellFormedNodes == {ns \in NodeArrays : \A i \in DOMAIN ns : ns[i].id = i}

RawLinks ==
  SeqsUpTo({l \in [source : {Prim(i) : i \in LinkIds}, target : {Prim(i) : i \in LinkIds}] :
              l.source # l.target}, MaxLinks)

RecLists == SeqsUpTo(LinkIds, MaxRec)

\* ------------------------------------------------------ classification pass
\* new Set(recommendedIds)
RecommendedSet(recIds) == Range(recIds)

PagerankSet(nodes) ==
  {nodes[i].id : i \in {j \in DOMAIN nodes :
        nodes[j].type = "pagerank" \/ nodes[j].recommendation_type = "pagerank"}}

ConnectedSet(links, recommendedSet, pagerankSet) ==
  {IdOf(links[i].target) : i \in {j \in DOMAIN links : IdOf(links[j].source) \in recommendedSet}}
  \cup {IdOf(links[i].source) : i \in {j \in DOMAIN links : IdOf(links[j].target) \in recommendedSet}}
  \cup {IdOf(links[i].target) : i \in {j \in DOMAIN links : IdOf(links[j].source) \in pagerankSet}}
  \cup {IdOf(links[i].source) : i \in {j \in DOMAIN links : IdOf(links[j].target) \in pagerankSet}}

AssignRoleSwapped(node, recommendedSet, pagerankSet, connectedSet) ==
  IF node.id \in pagerankSet \/ node.recommendation_type = "pagerank" THEN "pagerank"
  ELSE IF node.id \in recommendedSet THEN "recommended"
  ELSE IF node.id \in connectedSet THEN "connected"
  ELSE "other"

AssignRoleNoElse(node, recommendedSet, pagerankSet, connectedSet) ==
  IF node.id \in recommendedSet THEN "recommended"
  ELSE IF node.id \in pagerankSet \/ node.recommendation_type = "pagerank" THEN "pagerank"
  ELSE IF node.id \in connectedSet THEN "connected"
  ELSE node.type

AssignRole(node, recommendedSet, pagerankSet, connectedSet) ==
  IF node.id \in recommendedSet THEN "recommended"
  ELSE IF node.id \in pagerankSet \/ node.recommendation_type = "pagerank" THEN "pagerank"
  ELSE IF node.id \in connectedSet THEN "connected"
  ELSE "other"

ClassifyNodes(nodes, links, recIds) ==
  LET recommendedSet == RecommendedSet(recIds)
      pagerankSet == PagerankSet(nodes)
      connectedSet == ConnectedSet(links, recommendedSet, pagerankSet)
  IN [i \in DOMAIN nodes |->
        [nodes[i] EXCEPT !.type = AssignRole(nodes[i], recommendedSet, pagerankSet, connectedSet)]]

\* ------------------------------------------------- d3.forceLink(...).id(...)
\* initialize() walks the links in order; an endpoint that is not an object
\* is looked up by id, and a lookup that finds no node throws.
Findable(nodes, e) == e.obj \/ \E i \in DOMAIN nodes : nodes[i].id = e.v

Resolve(e) == IF e.obj THEN e ELSE Ref(e.v)

BadLinks(nodes, links) ==
  {i \in DOMAIN links : ~Findable(nodes, links[i].source) \/ ~Findable(nodes, links[i].target)}

ForceLinkThrows(nodes, links) == BadLinks(nodes, links) # {}

FirstBad(nodes, links) ==
  IF ForceLinkThrows(nodes, links)
    THEN CHOOSE i \in BadLinks(nodes, links) : \A j \in BadLinks(nodes, links) : i <= j
    ELSE Len(links) + 1

ForceLinkResolve(nodes, links) ==
  LET b == FirstBad(nodes, links)
  IN [i \in DOMAIN links |->
        IF i < b THEN [source |-> Resolve(links[i].source), target |-> Resolve(links[i].target)]
        ELSE IF i = b /\ Findable(nodes, links[i].source)
          THEN [links[i] EXCEPT !.source = Resolve(links[i].source)]
        ELSE links[i]]

RolesOf(nodes) == [i \in DOMAIN nodes |-> nodes[i].type]

\* ---------------------------------------------------------- radii (x 1000)
\* node.value lies in [0, 1]; it is modelled in hundredths
Values == 0..100

CollideRadius == 20000

Max(a, b) == IF a >= b THEN a ELSE b
Min(a, b) == IF a <= b THEN a ELSE b

\* Math.max(8, d.value * 20), in thousandths
BaseSize(value) == Max(8000, value * 200)

\* the `r` attribute of a node's circle, in thousandths
NodeRadius(node) ==
  IF node.type = "recommended" THEN (BaseSize(node.value) * 110) \div 100
  ELSE IF node.type = "pagerank" THEN (BaseSize(node.value) * 110) \div 100
  ELSE IF node.type = "connected" THEN (BaseSize(node.value) * 105) \div 100
  ELSE BaseSize(node.value)

\* --------------------------------------------------------------- zoom
ScaleMin == 10
ScaleMax == 400
InitialScale == 80
ZoomRequests == {5, 1000}

ClampScaleNone(k) == k

\* d3.zoom constrains a gesture's scale to scaleExtent
ClampScale(k) == Max(ScaleMin, Min(ScaleMax, k))

\* ---------------------------------------------------------- payloads
NoData == [run |-> 0, nodesOk |-> FALSE, linksOk |-> FALSE, nodes |-> <<>>, links |-> <<>>,
           classified |-> FALSE]

EmptySurface == [legend |-> FALSE, nodes |-> <<>>, links |-> <<>>, run |-> 0]

\* node arrays of the documented payload shape: no incoming `type` field
DocumentedNodes == {ns \in WellFormedNodes : \A i \in DOMAIN ns : ns[i].type = "unset"}

Payloads ==
  {[nodesOk |-> TRUE, linksOk |-> TRUE, nodes |-> ns, links |-> ls] :
      ns \in DocumentedNodes, ls \in RawLinks}
  \cup {[nodesOk |-> FALSE, linksOk |-> TRUE, nodes |-> <<>>, links |-> ls] : ls \in RawLinks}
  \cup {[nodesOk |-> TRUE, linksOk |-> FALSE, nodes |-> ns, links |-> <<>>] :
          ns \in DocumentedNodes}

\* ===================================================== component lifecycle
CompInit ==
  /\ recommendedIds = <<>>
  /\ runs = 0
  /\ loading = FALSE
  /\ pending = {}
  /\ data = NoData
  /\ surface = EmptySurface
  /\ transformK = 100
  /\ sims = {}
  /\ tooltips = 0
  /\ hover = 0
  /\ drew = {}

\* useEffect body: fetchAndRenderGraph() up to its first await
RunEffect(ids) ==
  /\ runs' = runs + 1
  /\ loading' = TRUE
  /\ pending' = pending \cup {[run |-> runs + 1, recommendedIds |-> ids]}

\* first render: the effect runs with the initial prop
Mount ==
  /\ runs = 0
  /\ RunEffect(recommendedIds)
  /\ UNCHANGED <<recommendedIds, data, surface, transformK, sims, tooltips, hover, drew>>

\* App.handleContextChange sets a new array; the effect runs again
RecommendedIdsChange(ids) ==
  /\ runs > 0
  /\ runs < MaxRuns
  /\ recommendedIds' = ids
  /\ RunEffect(ids)
  /\ UNCHANGED <<data, surface, transformK, sims, tooltips, hover, drew>>

\* fetch() or response.json() rejects: catch, then finally
FetchFail(p) ==
  /\ p \in pending
  /\ pending' = pending \ {p}
  /\ loading' = FALSE
  /\ UNCHANGED <<recommendedIds, runs, data, surface, transformK, sims, tooltips, hover,
                 drew>>

\* the data object as the handler leaves it
HandledData(p, payload) ==
  LET canClassify == payload.nodesOk /\ payload.linksOk
      nodes == IF canClassify
                 THEN ClassifyNodes(payload.nodes, payload.links, p.recommendedIds)
                 ELSE payload.nodes
      links == IF canClassify THEN ForceLinkResolve(nodes, payload.links) ELSE payload.links
  IN [run |-> p.run, nodesOk |-> payload.nodesOk, linksOk |-> payload.linksOk,
      nodes |-> nodes, links |-> links, classified |-> canClassify]

\* the svg's children when the handler returns
RenderedSurface(p, payload, d) ==
  IF ~payload.nodesOk THEN surface
  ELSE IF ~payload.linksOk \/ ForceLinkThrows(d.nodes, payload.links)
    THEN [legend |-> TRUE, nodes |-> <<>>, links |-> <<>>, run |-> p.run]
  ELSE [legend |-> TRUE, nodes |-> d.nodes, links |-> d.links, run |-> p.run]

\* d3.forceSimulation(data.nodes) starts a timer at once; the tick listener
\* is attached only if the handler reaches simulation.on('tick', ...)
StartedSims(p, payload, d) ==
  IF payload.nodesOk /\ payload.linksOk
    THEN {[run |-> p.run, ticks |-> 0,
           listener |-> ~ForceLinkThrows(d.nodes, payload.links)]}
    ELSE {}

\* the handler reaches its last statement: nothing in the try block throws
Draws(payload) ==
  payload.nodesOk /\ payload.linksOk /\ ~ForceLinkThrows(payload.nodes, payload.links)

\* the response arrives: the rest of fetchAndRenderGraph, catch and finally
FetchComplete(p, payload) ==
  /\ p \in pending
  /\ pending' = pending \ {p}
  /\ LET d == HandledData(p, payload)
     IN /\ data' = d
        /\ surface' = RenderedSurface(p, payload, d)
        /\ sims' = sims \cup StartedSims(p, payload, d)
  /\ transformK' = IF payload.nodesOk THEN InitialScale ELSE transformK
  /\ hover' = IF payload.nodesOk THEN 0 ELSE hover
  /\ loading' = FALSE
  /\ drew' = IF Draws(payload) THEN drew \cup {p.run} ELSE drew
  /\ UNCHANGED <<recommendedIds, runs, tooltips>>

\* one step of a simulation's timer; the simulation stops itself once its
\* alpha has decayed
Tick(s) ==
  /\ s \in sims
  /\ sims' = IF s.ticks + 1 >= MaxTicks
               THEN sims \ {s}
               ELSE (sims \ {s}) \cup {[s EXCEPT !.ticks = s.ticks + 1]}
  /\ UNCHANGED <<recommendedIds, runs, loading, pending, data, surface, transformK,
                 tooltips, hover, drew>>

\* a zoom gesture on the svg
Zoom(k) ==
  /\ surface.legend
  /\ transformK' = ClampScale(k)
  /\ UNCHANGED <<recommendedIds, runs, loading, pending, data, surface, sims,
                 tooltips, hover, drew>>

\* the pointer enters circle i
MouseOver(i) ==
  /\ hover = 0
  /\ i \in DOMAIN surface.nodes
  /\ tooltips < MaxTooltips
  /\ tooltips' = tooltips + 1
  /\ hover' = i
  /\ UNCHANGED <<recommendedIds, runs, loading, pending, data, surface, transformK, sims,
                 drew>>

\* the pointer leaves the circle it was over
MouseOut ==
  /\ hover # 0
  /\ tooltips' = 0
  /\ hover' = 0
  /\ UNCHANGED <<recommendedIds, runs, loading, pending, data, surface, transformK, sims,
                 drew>>

\* ============================================ the classification pass alone
ClassIdle ==
  /\ cInput = [nodes |-> <<>>, links |-> <<>>]
  /\ cRec = <<>>
  /\ cData = cInput
  /\ cPasses = 0
  /\ cResolved = FALSE
  /\ cRoles1 = <<>>

ClassInit ==
  /\ cInput \in [nodes : WellFormedNodes, links : RawLinks]
  /\ cRec \in RecLists
  /\ cData = cInput
  /\ cPasses = 0
  /\ cResolved = FALSE
  /\ cRoles1 = <<>>

ClassifyPass ==
  /\ cPasses < MaxPasses
  /\ cPasses' = cPasses + 1
  /\ cData' = [cData EXCEPT !.nodes = ClassifyNodes(cData.nodes, cData.links, cRec)]
  /\ cRoles1' = IF cPasses = 0 THEN RolesOf(cData'.nodes) ELSE cRoles1
  /\ UNCHANGED <<cInput, cRec, cResolved>>

ResolveLinks ==
  /\ cPasses >= 1
  /\ ~cResolved
  /\ cResolved' = TRUE
  /\ cData' = [cData EXCEPT !.links = ForceLinkResolve(cData.nodes, cData.links)]
  /\ UNCHANGED <<cInput, cRec, cPasses, cRoles1>>

\* ======================================================== one node's radii
RadIdle ==
  /\ rNode = [value |-> 0, type |-> "other"]
  /\ rDrawn = 0
  /\ rCollide = 0

RadInit ==
  /\ rNode \in [value : Values, type : Roles]
  /\ rDrawn = 0
  /\ rCollide = 0

\* d3.forceCollide().radius(20)
CreateCollision ==
  /\ rCollide = 0
  /\ rCollide' = CollideRadius
  /\ UNCHANGED <<rNode, rDrawn>>

\* .attr('r', d => ...)
DrawCircle ==
  /\ rCollide # 0
  /\ rDrawn = 0
  /\ rDrawn' = NodeRadius(rNode)
  /\ UNCHANGED <<rNode, rCollide>>

\* ========================================================== specifications
Init == CompInit /\ ClassIdle /\ RadIdle

Next ==
  \/ (Mount /\ UNCHANGED <<classVars, radVars>>)
  \/ (\E ids \in RecLists : RecommendedIdsChange(ids) /\ UNCHANGED <<classVars, radVars>>)
  \/ (\E p \in pending : FetchFail(p) /\ UNCHANGED <<classVars, radVars>>)
  \/ (\E p \in pending : \E payload \in Payloads :
        FetchComplete(p, payload) /\ UNCHANGED <<classVars, radVars>>)
  \/ (\E s \in sims : Tick(s) /\ UNCHANGED <<classVars, radVars>>)
  \/ (\E k \in ZoomRequests : Zoom(k) /\ UNCHANGED <<classVars, radVars>>)
  \/ (\E i \in NodeIds : MouseOver(i) /\ UNCHANGED <<classVars, radVars>>)
  \/ (MouseOut /\ UNCHANGED <<classVars, radVars>>)

Spec == Init /\ [][Next]_vars

InitClassify == CompInit /\ ClassInit /\ RadIdle

NextClassify ==
  \/ (ClassifyPass /\ UNCHANGED <<compVars, radVars>>)
  \/ (ResolveLinks /\ UNCHANGED <<compVars, radVars>>)

SpecClassify == InitClassify /\ [][NextClassify]_vars

InitRadius == CompInit /\ ClassIdle /\ RadInit

NextRadius ==
  \/ (CreateCollision /\ UNCHANGED <<compVars, classVars>>)
  \/ (DrawCircle /\ UNCHANGED <<compVars, classVars>>)

SpecRadius == InitRadius /\ [][NextRadius]_vars

\* ================================================================== claims
AllClassified(nodes) == \A i \in DOMAIN nodes : nodes[i].type \in Roles

\* the payload has the documented shape: every link endpoint is a node's id
DocumentedShape(d) == BadLinks(d.nodes, d.links) = {}

\* ids the input marks as recommended or pagerank
Promoted == RecommendedSet(cRec) \cup PagerankSet(cInput.nodes)

AdjacentToPromoted(id) ==
  \E k \in DOMAIN cInput.links :
    \/ cInput.links[k].source.v = id /\ cInput.links[k].target.v \in Promoted
    \/ cInput.links[k].target.v = id /\ cInput.links[k].source.v \in Promoted

\* C1: on a payload of the documented shape, the first classification pass
\* gives role 'connected' to every node that is in neither the recommended
\* nor the pagerank set but shares a link with a node of one of those sets.
C1_ConnectedDerived ==
  (cPasses = 1 /\ DocumentedShape(cInput)) =>
    \A i \in DOMAIN cData.nodes :
      (cData.nodes[i].id \notin Promoted /\ AdjacentToPromoted(cData.nodes[i].id))
        => cData.nodes[i].type = "connected"

\* C2: at most one force simulation is running at any time.
C2_OneSimulation == Cardinality(sims) <= 1

\* C3: at most one tooltip element exists at any time.
C3_OneOverlay == tooltips <= 1

\* the links of d whose endpoints both name a node, resolved
KnownLinks(d) ==
  LET Known(l) == Findable(d.nodes, l.source) /\ Findable(d.nodes, l.target)
  IN ForceLinkResolve(d.nodes, SelectSeq(d.links, Known))

\* C4: when the payload handled last has a link naming an unknown node id,
\* every node has its role and the surface shows that payload's nodes and its
\* remaining links.
C4_UnknownLinkDropped ==
  (data.classified /\ ~DocumentedShape(data)) =>
    /\ AllClassified(data.nodes)
    /\ surface.run = data.run
    /\ surface.nodes = data.nodes
    /\ surface.links = KnownLinks(data)
    /\ \A s \in sims : s.run = data.run => s.listener

\* C5: after the classification pass every node whose id is in recommendedIds
\* has role 'recommended', whether or not it is also in the pagerank set or
\* the connected set.
C5_RecommendedWins ==
  cPasses >= 1 =>
    \A i \in DOMAIN cData.nodes :
      cData.nodes[i].id \in RecommendedSet(cRec) => cData.nodes[i].type = "recommended"

C5_Witness ==
  /\ cPasses >= 1
  /\ \E i \in DOMAIN cData.nodes :
       /\ cData.nodes[i].id \in RecommendedSet(cRec)
       /\ cData.nodes[i].id \in PagerankSet(cInput.nodes)
       /\ cData.nodes[i].type = "recommended"

\* C6: a second classification pass over an already classified data object,
\* whose links forceLink has resolved, gives every node the role the first
\* pass gave it.
C6_Idempotent == (cPasses >= 2 /\ cResolved) => RolesOf(cData.nodes) = cRoles1

\* C7: once a payload is classified every one of its nodes has a role from
\* Roles, so has every drawn node, and no step changes the roles of a data
\* object or of the drawn nodes while the same snapshot is displayed.
C7_RolesTotalAndStable ==
  [][/\ data'.classified => AllClassified(data'.nodes)
     /\ AllClassified(surface'.nodes)
     /\ data'.run = data.run => RolesOf(data'.nodes) = RolesOf(data.nodes)
     /\ surface'.run = surface.run => RolesOf(surface'.nodes) = RolesOf(surface.nodes)]_vars

C7_Witness ==
  /\ surface.nodes # <<>>
  /\ AllClassified(surface.nodes)
  /\ hover # 0
  /\ transformK # InitialScale
  /\ \E s \in sims : s.run = surface.run /\ s.ticks > 0

\* C8: while a graph fetch is pending the loading indicator is shown.
C8_LoadingWhilePending == pending # {} => loading

\* C9: when the payload handled last had missing nodes or links, no node was
\* classified, no simulation runs for it, and no nodes or links are drawn.
C9_MalformedEndsEmpty ==
  (data.run > 0 /\ (~data.nodesOk \/ ~data.linksOk)) =>
    /\ ~data.classified
    /\ \A s \in sims : s.run # data.run
    /\ surface.nodes = <<>>
    /\ surface.links = <<>>

\* C10: the collision radius the simulator enforces for a node is at least
\* the radius at which the node is drawn.
C10_CollisionCoversDrawn == rDrawn # 0 => rCollide >= rDrawn

\* C11: whenever the drawing group exists, the scale of its transform lies
\* within scaleExtent, whatever scales the zoom gestures asked for.
C11_ScaleWithinExtent ==
  surface.legend => (transformK >= ScaleMin /\ transformK <= ScaleMax)

C11_Witness ==
  /\ surface.legend
  /\ transformK = ScaleMax
  /\ 1000 \in ZoomRequests

\* C12: once any graph fetch has settled (drawn, failed in transport, or
\* returned a payload without nodes or links) the legend is on the surface.
C12_LegendAlwaysRendered == Cardinality(pending) < runs => surface.legend

\* the drawn nodes and links as the payload carried them
AsFetchedNodes(nodes) == [i \in DOMAIN nodes |-> [nodes[i] EXCEPT !.type = "unset"]]

AsFetchedLinks(links) ==
  [i \in DOMAIN links |-> [source |-> Prim(links[i].source.v), target |-> Prim(links[i].target.v)]]

\* C13: once every fetch has settled and every handler drew its snapshot, the
\* roles on the surface are those the classification pass computes from the
\* current (most recent) recommendedIds.
C13_LatestRecommendedIdsDrawn ==
  (runs > 0 /\ pending = {} /\ drew = 1..runs) =>
    RolesOf(surface.nodes) =
      RolesOf(ClassifyNodes(AsFetchedNodes(surface.nodes), AsFetchedLinks(surface.links),
                            recommendedIds))

====
